---- MODULE Spec2Model ----
(***************************************************************************)
(* Huffman compression engine of FileCompression.py and MixAndEntropy.py:  *)
(* frequency counting, heap-based tree construction, code generation,      *)
(* encoding, bit packing, the compressed file layout, unpacking and        *)
(* decoding.  Strings of '0'/'1' characters are sequences over {0, 1};     *)
(* Node objects live in the store `nodes` and are referred to by index.    *)
(***************************************************************************)
EXTENDS Integers, Sequences, FiniteSets, TLC

VARIABLES variant, text, pc, outcome, frequency_map, nodes, heap, left, right,
          root, codes, encoded_text, padding, binary_data, compressed_file,
          binary_string, bit_index, node, decoded_text, run, other, first_codes

vars == <<variant, text, pc, outcome, frequency_map, nodes, heap, left, right,
          root, codes, encoded_text, padding, binary_data, compressed_file,
          binary_string, bit_index, node, decoded_text, run, other, first_codes>>

(* ------------------------------ bounds --------------------------------- *)
NSym == 4
MaxLen == 4
MaxBits == 9
MaxDecodeBits == 3
NSymD == 2
MaxLenD == 4

(* --------------------------- program constants ------------------------- *)
None == 0
NoByte == -1
ByteBits == 8
Newline == 10
CharZero == 48

Variants == {"FileCompression", "MixAndEntropy"}

Symbols == 0 .. (NSym - 1)

BuffersOver(S, n) == UNION {[1 .. k -> S] : k \in 0 .. n}

Bit == {0, 1}

Min(a, b) == IF a < b THEN a ELSE b

Max(a, b) == IF a > b THEN a ELSE b

(* ------------------------------ Node ----------------------------------- *)
Node(character, frequency, l, r) ==
  [character |-> character, frequency |-> frequency, left |-> l, right |-> r]

LtReversed(ns, a, b) == ns[a].frequency > ns[b].frequency

Lt(ns, a, b) == ns[a].frequency < ns[b].frequency

(* ------------------------- frequency counting -------------------------- *)
FreqIndex(fm, ch) ==
  IF \E i \in 1 .. Len(fm) : fm[i].character = ch
    THEN CHOOSE i \in 1 .. Len(fm) : fm[i].character = ch
    ELSE 0

Without(s, i) == SubSeq(s, 1, i - 1) \o SubSeq(s, i + 1, Len(s))

FreqAddMoveToEnd(fm, ch) ==
  LET i == FreqIndex(fm, ch)
  IN  IF i = 0
        THEN Append(fm, [character |-> ch, frequency |-> 1])
        ELSE Append(Without(fm, i),
                    [character |-> ch, frequency |-> fm[i].frequency + 1])

FreqAdd(fm, ch) ==
  LET i == FreqIndex(fm, ch)
  IN  IF i = 0
        THEN Append(fm, [character |-> ch, frequency |-> 1])
        ELSE [fm EXCEPT ![i].frequency = @ + 1]

RECURSIVE FrequencyMap(_)
FrequencyMap(t) ==
  IF t = << >> THEN << >>
  ELSE FreqAdd(FrequencyMap(SubSeq(t, 1, Len(t) - 1)), t[Len(t)])

(* ------------------------------- heapq --------------------------------- *)
(* Positions are 0-based as in heapq; heap[pos + 1] is the item at pos.    *)
RECURSIVE SiftDownLoop(_, _, _, _, _)
SiftDownLoop(ns, h, startpos, pos, newitem) ==
  IF pos > startpos
    THEN LET parentpos == (pos - 1) \div 2
             parent == h[parentpos + 1]
         IN  IF Lt(ns, newitem, parent)
               THEN SiftDownLoop(ns, [h EXCEPT ![pos + 1] = parent],
                                 startpos, parentpos, newitem)
               ELSE [h EXCEPT ![pos + 1] = newitem]
    ELSE [h EXCEPT ![pos + 1] = newitem]

SiftDown(ns, h, startpos, pos) == SiftDownLoop(ns, h, startpos, pos, h[pos + 1])

RECURSIVE SiftUpLoop(_, _, _, _, _)
SiftUpLoop(ns, h, startpos, pos, newitem) ==
  LET endpos == Len(h)
      childpos == 2 * pos + 1
      rightpos == childpos + 1
      c == IF rightpos < endpos /\ ~Lt(ns, h[childpos + 1], h[rightpos + 1])
             THEN rightpos ELSE childpos
  IN  IF childpos < endpos
        THEN SiftUpLoop(ns, [h EXCEPT ![pos + 1] = h[c + 1]], startpos, c, newitem)
        ELSE SiftDown(ns, [h EXCEPT ![pos + 1] = newitem], startpos, pos)

SiftUp(ns, h, pos) == SiftUpLoop(ns, h, pos, pos, h[pos + 1])

RECURSIVE HeapifyFrom(_, _, _)
HeapifyFrom(ns, h, i) ==
  IF i < 0 THEN h ELSE HeapifyFrom(ns, SiftUp(ns, h, i), i - 1)

Heapify(ns, x) == HeapifyFrom(ns, x, (Len(x) \div 2) - 1)

HeapPush(ns, h, item) == SiftDown(ns, Append(h, item), 0, Len(h))

HeapPopNoSift(ns, h) ==
  LET lastelt == h[Len(h)]
      rest == SubSeq(h, 1, Len(h) - 1)
  IN  IF rest # << >>
        THEN [item |-> rest[1], heap |-> [rest EXCEPT ![1] = lastelt]]
        ELSE [item |-> lastelt, heap |-> rest]

HeapPop(ns, h) ==
  LET lastelt == h[Len(h)]
      rest == SubSeq(h, 1, Len(h) - 1)
  IN  IF rest # << >>
        THEN [item |-> rest[1],
              heap |-> SiftUp(ns, [rest EXCEPT ![1] = lastelt], 0)]
        ELSE [item |-> lastelt, heap |-> rest]

(* --------------------------- code generation --------------------------- *)
HasCharacterTruthy(n) == n.character # NoByte /\ n.character # 0

HasCharacter(n) == n.character # NoByte

RECURSIVE GenerateCodes(_, _, _, _)
GenerateCodes(ns, cs, n, current_code) ==
  IF n = None THEN cs
  ELSE IF HasCharacter(ns[n])
    THEN (ns[n].character :> current_code) @@ cs
    ELSE GenerateCodes(ns,
                       GenerateCodes(ns, cs, ns[n].left, Append(current_code, 0)),
                       ns[n].right, Append(current_code, 1))

RECURSIVE EncodeText(_, _)
EncodeText(cs, t) ==
  IF t = << >> THEN << >>
  ELSE cs[t[1]] \o EncodeText(cs, Tail(t))

(* ------------------------------ packing -------------------------------- *)
Zeros(n) == [i \in 1 .. n |-> 0]

PaddingAligned(encoded) == (ByteBits - (Len(encoded) % ByteBits)) % ByteBits

Padding(encoded) == ByteBits - (Len(encoded) % ByteBits)

RECURSIVE BitsToInt(_)
BitsToInt(bits) ==
  IF bits = << >> THEN 0
  ELSE 2 * BitsToInt(SubSeq(bits, 1, Len(bits) - 1)) + bits[Len(bits)]

RECURSIVE IntToBits(_)
IntToBits(n) ==
  IF n < 2 THEN <<n>> ELSE Append(IntToBits(n \div 2), n % 2)

FormatByteUnpadded(n) == IntToBits(n)

FormatByte(n) ==
  LET digits == IntToBits(n)
  IN  Zeros(Max(ByteBits - Len(digits), 0)) \o digits

RECURSIVE PackBytes(_)
PackBytes(padded) ==
  IF padded = << >> THEN << >>
  ELSE <<BitsToInt(SubSeq(padded, 1, Min(ByteBits, Len(padded))))>>
         \o PackBytes(SubSeq(padded, ByteBits + 1, Len(padded)))

RECURSIVE UnpackBytes(_)
UnpackBytes(bytes) ==
  IF bytes = << >> THEN << >>
  ELSE FormatByte(bytes[1]) \o UnpackBytes(Tail(bytes))

DropLast(s, p) ==
  IF p = 0 THEN << >> ELSE SubSeq(s, 1, Max(Len(s) - p, 0))

(* --------------------- text layout of MixAndEntropy -------------------- *)
RECURSIVE DecimalDigits(_)
DecimalDigits(n) ==
  IF n < 10 THEN <<CharZero + n>>
  ELSE Append(DecimalDigits(n \div 10), CharZero + (n % 10))

RECURSIVE ParseInt(_)
ParseInt(chars) ==
  IF chars = << >> THEN 0
  ELSE 10 * ParseInt(SubSeq(chars, 1, Len(chars) - 1))
         + (chars[Len(chars)] - CharZero)

LineEnd(f) == CHOOSE i \in 1 .. Len(f) :
                 f[i] = Newline /\ \A j \in 1 .. (i - 1) : f[j] # Newline

BitChars(bits) == [i \in 1 .. Len(bits) |-> CharZero + bits[i]]

CharBits(chars) == [i \in 1 .. Len(chars) |-> chars[i] - CharZero]

(* ------------------------------ state ---------------------------------- *)
inVars == <<variant, text>>

treeVars == <<frequency_map, nodes, heap, left, right, root, codes>>

packVars == <<encoded_text, padding, binary_data, compressed_file>>

decVars == <<binary_string, bit_index, node, decoded_text>>

rebuildVars == <<run, other, first_codes>>

IsFile == variant = "FileCompression"

Fresh ==
  /\ outcome = "none"
  /\ frequency_map = << >>
  /\ nodes = << >>
  /\ heap = << >>
  /\ left = None
  /\ right = None
  /\ root = None
  /\ codes = << >>
  /\ padding = 0
  /\ binary_data = << >>
  /\ compressed_file = << >>
  /\ binary_string = << >>
  /\ bit_index = 0
  /\ node = None
  /\ decoded_text = << >>
  /\ run = 1
  /\ first_codes = << >>

(* compress_file followed by decompress_file on one input buffer *)
Init ==
  /\ variant \in Variants
  /\ text \in BuffersOver(Symbols, MaxLen)
  /\ pc = "compress_file"
  /\ encoded_text = << >>
  /\ other = << >>
  /\ Fresh

(* ---------------------------- compress_file ---------------------------- *)
CompressFile ==
  /\ pc = "compress_file"
  /\ IF ~IsFile /\ text = << >>
       THEN outcome' = "EmptyFile" /\ pc' = "done"
       ELSE outcome' = outcome /\ pc' = "HuffmanTree"
  /\ UNCHANGED <<inVars, treeVars, packVars, decVars, rebuildVars>>

HuffmanTreeInit ==
  /\ pc = "HuffmanTree"
  /\ codes' = << >>
  /\ IF text # << >>
       THEN pc' = "build_tree" /\ root' = root
       ELSE pc' = "constructed" /\ root' = None
  /\ UNCHANGED <<inVars, outcome, frequency_map, nodes, heap, left, right,
                 packVars, decVars, rebuildVars>>

CountFrequencies ==
  /\ pc = "build_tree"
  /\ frequency_map' = FrequencyMap(text)
  /\ pc' = "heapify"
  /\ UNCHANGED <<inVars, outcome, nodes, heap, left, right, root, codes,
                 packVars, decVars, rebuildVars>>

BuildHeap ==
  /\ pc = "heapify"
  /\ nodes' = [i \in 1 .. Len(frequency_map) |->
                 Node(frequency_map[i].character, frequency_map[i].frequency,
                      None, None)]
  /\ heap' = Heapify(nodes', [i \in 1 .. Len(frequency_map) |-> i])
  /\ pc' = "loop"
  /\ UNCHANGED <<inVars, outcome, frequency_map, left, right, root, codes,
                 packVars, decVars, rebuildVars>>

PopLeft ==
  /\ pc = "loop"
  /\ Len(heap) > 1
  /\ LET r == HeapPop(nodes, heap)
     IN  left' = r.item /\ heap' = r.heap
  /\ pc' = "pop_right"
  /\ UNCHANGED <<inVars, outcome, frequency_map, nodes, right, root, codes,
                 packVars, decVars, rebuildVars>>

PopRight ==
  /\ pc = "pop_right"
  /\ LET r == HeapPop(nodes, heap)
     IN  right' = r.item /\ heap' = r.heap
  /\ pc' = "push"
  /\ UNCHANGED <<inVars, outcome, frequency_map, nodes, left, root, codes,
                 packVars, decVars, rebuildVars>>

MergedFrequency(ns, l, r) == ns[l].frequency + ns[r].frequency

PushMerged ==
  /\ pc = "push"
  /\ nodes' = Append(nodes, Node(NoByte, MergedFrequency(nodes, left, right),
                                 left, right))
  /\ heap' = HeapPush(nodes', heap, Len(nodes'))
  /\ pc' = "loop"
  /\ UNCHANGED <<inVars, outcome, frequency_map, left, right, root, codes,
                 packVars, decVars, rebuildVars>>

ReturnRoot ==
  /\ pc = "loop"
  /\ Len(heap) <= 1
  /\ root' = IF heap # << >> THEN heap[1] ELSE None
  /\ pc' = "generate_codes"
  /\ UNCHANGED <<inVars, outcome, frequency_map, nodes, heap, left, right,
                 codes, packVars, decVars, rebuildVars>>

GenerateCodesCall ==
  /\ pc = "generate_codes"
  /\ codes' = IF root # None THEN GenerateCodes(nodes, codes, root, << >>)
                             ELSE codes
  /\ pc' = "constructed"
  /\ UNCHANGED <<inVars, outcome, frequency_map, nodes, heap, left, right,
                 root, packVars, decVars, rebuildVars>>

Encode ==
  /\ pc = "constructed"
  /\ IF \A i \in 1 .. Len(text) : text[i] \in DOMAIN codes
       THEN /\ encoded_text' = EncodeText(codes, text)
            /\ outcome' = outcome
            /\ pc' = "to_binary_string"
       ELSE /\ encoded_text' = encoded_text
            /\ outcome' = "KeyError"
            /\ pc' = "done"
  /\ UNCHANGED <<inVars, treeVars, padding, binary_data, compressed_file,
                 decVars, rebuildVars>>

ToBinaryString ==
  /\ pc = "to_binary_string"
  /\ padding' = Padding(encoded_text)
  /\ LET padded_text == encoded_text \o Zeros(padding')
     IN  binary_data' = IF IsFile THEN PackBytes(padded_text) ELSE padded_text
  /\ pc' = "write"
  /\ UNCHANGED <<inVars, outcome, treeVars, encoded_text, compressed_file,
                 decVars, rebuildVars>>

WriteFile ==
  /\ pc = "write"
  /\ compressed_file' =
       IF IsFile THEN <<padding>> \o binary_data
       ELSE DecimalDigits(padding) \o <<Newline>> \o BitChars(binary_data)
  /\ pc' = "decompress_file"
  /\ UNCHANGED <<inVars, outcome, treeVars, encoded_text, padding, binary_data,
                 decVars, rebuildVars>>

(* --------------------------- decompress_file --------------------------- *)
ReadFile ==
  /\ pc = "decompress_file"
  /\ IF IsFile
       THEN /\ padding' = compressed_file[1]
            /\ binary_data' = Tail(compressed_file)
       ELSE LET e == LineEnd(compressed_file)
            IN  /\ padding' = ParseInt(SubSeq(compressed_file, 1, e - 1))
                /\ binary_data' = CharBits(SubSeq(compressed_file, e + 1,
                                                  Len(compressed_file)))
  /\ IF ~IsFile /\ binary_data' = << >>
       THEN outcome' = "NoData" /\ pc' = "done"
       ELSE outcome' = outcome /\ pc' = "unpack"
  /\ UNCHANGED <<inVars, treeVars, encoded_text, compressed_file, decVars,
                 rebuildVars>>

Unpack ==
  /\ pc = "unpack"
  /\ binary_string' = IF IsFile THEN UnpackBytes(binary_data) ELSE binary_data
  /\ pc' = "strip"
  /\ UNCHANGED <<inVars, outcome, treeVars, packVars, bit_index, node,
                 decoded_text, rebuildVars>>

StripPadding ==
  /\ pc = "strip"
  /\ binary_string' = DropLast(binary_string, padding)
  /\ pc' = "decode_huffman"
  /\ UNCHANGED <<inVars, outcome, treeVars, packVars, bit_index, node,
                 decoded_text, rebuildVars>>

(* ---------------------------- decode_huffman --------------------------- *)
DecodeStart ==
  /\ pc = "decode_huffman"
  /\ node' = root
  /\ decoded_text' = << >>
  /\ bit_index' = 0
  /\ pc' = "decode_loop"
  /\ UNCHANGED <<inVars, outcome, treeVars, packVars, binary_string,
                 rebuildVars>>

DecodeBit ==
  /\ pc = "decode_loop"
  /\ bit_index < Len(binary_string)
  /\ bit_index' = bit_index + 1
  /\ LET bit == binary_string[bit_index + 1]
         next == IF node = None THEN None
                 ELSE IF bit = 0 THEN nodes[node].left ELSE nodes[node].right
     IN  IF next = None
           THEN /\ outcome' = "AttributeError"
                /\ pc' = "done"
                /\ UNCHANGED <<node, decoded_text>>
           ELSE /\ outcome' = outcome
                /\ pc' = pc
                /\ IF nodes[next].character # NoByte
                     THEN /\ decoded_text' = Append(decoded_text,
                                                    nodes[next].character)
                          /\ node' = root
                     ELSE /\ decoded_text' = decoded_text
                          /\ node' = next
  /\ UNCHANGED <<inVars, treeVars, packVars, binary_string, rebuildVars>>

DecodeReturn ==
  /\ pc = "decode_loop"
  /\ bit_index = Len(binary_string)
  /\ pc' = "done"
  /\ UNCHANGED <<inVars, outcome, treeVars, packVars, decVars, rebuildVars>>

Next ==
  \/ CompressFile
  \/ HuffmanTreeInit
  \/ CountFrequencies
  \/ BuildHeap
  \/ PopLeft
  \/ PopRight
  \/ PushMerged
  \/ ReturnRoot
  \/ GenerateCodesCall
  \/ Encode
  \/ ToBinaryString
  \/ WriteFile
  \/ ReadFile
  \/ Unpack
  \/ StripPadding
  \/ DecodeStart
  \/ DecodeBit
  \/ DecodeReturn

Spec == Init /\ [][Next]_vars

(* ------------- decode_huffman on an arbitrary bit sequence ------------- *)
InitDecode ==
  /\ variant \in Variants
  /\ text \in BuffersOver(Symbols, MaxLen)
  /\ pc = "HuffmanTree"
  /\ encoded_text = << >>
  /\ other = << >>
  /\ Fresh

DecodeCall ==
  /\ pc = "constructed"
  /\ \E bits \in BuffersOver(Bit, MaxDecodeBits) : binary_string' = bits
  /\ pc' = "decode_huffman"
  /\ UNCHANGED <<inVars, outcome, treeVars, packVars, bit_index, node,
                 decoded_text, rebuildVars>>

NextDecode ==
  \/ HuffmanTreeInit
  \/ CountFrequencies
  \/ BuildHeap
  \/ PopLeft
  \/ PopRight
  \/ PushMerged
  \/ ReturnRoot
  \/ GenerateCodesCall
  \/ DecodeCall
  \/ DecodeStart
  \/ DecodeBit
  \/ DecodeReturn

SpecDecode == InitDecode /\ [][NextDecode]_vars

(* ------------ to_binary_string on an arbitrary bit sequence ------------ *)
InitPack ==
  /\ variant \in Variants
  /\ text = << >>
  /\ pc = "to_binary_string"
  /\ encoded_text \in BuffersOver(Bit, MaxBits)
  /\ other = << >>
  /\ Fresh

NextPack ==
  \/ ToBinaryString
  \/ WriteFile
  \/ ReadFile
  \/ Unpack
  \/ StripPadding

SpecPack == InitPack /\ [][NextPack]_vars

(* ------- HuffmanTree built twice, from two buffers of equal counts ------ *)
Count(t, ch) == Cardinality({i \in 1 .. Len(t) : t[i] = ch})

Range(t) == {t[i] : i \in 1 .. Len(t)}

SameCounts(t, u) ==
  /\ Len(t) = Len(u)
  /\ \A ch \in Range(t) \cup Range(u) : Count(t, ch) = Count(u, ch)

InitRebuild ==
  /\ variant \in Variants
  /\ text \in BuffersOver(0 .. (NSymD - 1), MaxLenD)
  /\ other \in {u \in BuffersOver(0 .. (NSymD - 1), MaxLenD) : SameCounts(text, u)}
  /\ pc = "HuffmanTree"
  /\ encoded_text = << >>
  /\ Fresh

Rebuild ==
  /\ pc = "constructed"
  /\ run = 1
  /\ run' = 2
  /\ first_codes' = codes
  /\ text' = other
  /\ other' = text
  /\ frequency_map' = << >>
  /\ nodes' = << >>
  /\ heap' = << >>
  /\ left' = None
  /\ right' = None
  /\ root' = None
  /\ codes' = << >>
  /\ pc' = "HuffmanTree"
  /\ UNCHANGED <<variant, outcome, packVars, decVars>>

NextRebuild ==
  \/ HuffmanTreeInit
  \/ CountFrequencies
  \/ BuildHeap
  \/ PopLeft
  \/ PopRight
  \/ PushMerged
  \/ ReturnRoot
  \/ GenerateCodesCall
  \/ Rebuild

SpecRebuild == InitRebuild /\ [][NextRebuild]_vars

(* ============================ properties =============================== *)
Frequency(n) == nodes[n].frequency

HeapItems == {heap[i] : i \in 1 .. Len(heap)}

IsPrefix(a, b) == Len(a) <= Len(b) /\ SubSeq(b, 1, Len(a)) = a

SingleSymbol(t) == t # << >> /\ \A i \in 1 .. Len(t) : t[i] = t[1]

RECURSIVE FirstOccurrences(_)
FirstOccurrences(t) ==
  IF t = << >> THEN << >>
  ELSE LET init == SubSeq(t, 1, Len(t) - 1)
       IN  IF t[Len(t)] \in Range(init)
             THEN FirstOccurrences(init)
             ELSE Append(FirstOccurrences(init), t[Len(t)])

RECURSIVE Offset(_, _, _)
Offset(cs, t, i) ==
  IF i = 0 THEN 0 ELSE Offset(cs, t, i - 1) + Len(cs[t[i]])

TreeBuilt == pc \notin {"compress_file", "HuffmanTree", "build_tree", "heapify",
                        "loop", "pop_right", "push", "generate_codes"}

(* C1: for every non-empty buffer, compress_file followed by              *)
(* decompress_file against the same tree gives back exactly the buffer.    *)
RoundTrip ==
  (pc = "done" /\ text # << >>) => (outcome = "none" /\ decoded_text = text)

(* C2: a buffer of one byte value repeated n >= 1 times gets a code of     *)
(* exactly one bit, encodes to n bits and decodes back to the n bytes.     *)
SingleSymbolOneBitCode ==
  (pc = "done" /\ SingleSymbol(text)) =>
    /\ text[1] \in DOMAIN codes
    /\ Len(codes[text[1]]) = 1
    /\ Len(encoded_text) = Len(text)
    /\ decoded_text = text

(* C3 as stated: an empty buffer compresses to an empty artifact (no tree, *)
(* no packed bitstream bytes) and decompresses to an empty buffer with no  *)
(* error outcome at any step.                                              *)
EmptyInputEmptyArtifact ==
  (pc = "done" /\ text = << >>) =>
    /\ outcome = "none"
    /\ root = None
    /\ binary_data = << >>
    /\ decoded_text = << >>

(* C3 amended: on an empty buffer FileCompression builds no tree, writes   *)
(* the padding count 8 followed by one zero byte and decompresses that to  *)
(* an empty buffer without error; MixAndEntropy's compress_file rejects    *)
(* the empty buffer with an error outcome and writes no artifact.          *)
EmptyInputOutcome ==
  (pc = "done" /\ text = << >>) =>
    IF IsFile
      THEN /\ outcome = "none"
           /\ root = None
           /\ padding = ByteBits
           /\ compressed_file = <<ByteBits, 0>>
           /\ decoded_text = << >>
      ELSE /\ outcome = "EmptyFile"
           /\ root = None
           /\ compressed_file = << >>

EmptyInputDecompressed ==
  pc = "done" /\ text = << >> /\ IsFile /\ compressed_file = <<ByteBits, 0>>
    /\ bit_index = 0 /\ decoded_text = << >>

(* C4: in every code table produced by generate_codes no code is a prefix  *)
(* of another code and every code is a non-empty bit-string.               *)
PrefixFreeNonEmpty ==
  pc = "constructed" =>
    \A x \in DOMAIN codes :
      /\ codes[x] # << >>
      /\ \A y \in DOMAIN codes \ {x} : ~IsPrefix(codes[x], codes[y])

(* C5 as stated: two buffers with the same occurrence count for every byte *)
(* value, whatever the order of their bytes, yield identical code tables.  *)
SameCountsSameCodes ==
  (pc = "constructed" /\ run = 2 /\ SameCounts(text, other)) =>
    codes = first_codes

(* C5 amended: two buffers with the same occurrence count for every byte   *)
(* value and the same order of first occurrence of their byte values yield *)
(* identical code tables.                                                  *)
SameFrequencyTableSameCodes ==
  (pc = "constructed" /\ run = 2 /\ SameCounts(text, other)
     /\ FirstOccurrences(text) = FirstOccurrences(other)) =>
    codes = first_codes

RebuiltFromReorderedBuffer ==
  /\ pc = "constructed"
  /\ run = 2
  /\ text # other
  /\ SameCounts(text, other)
  /\ FirstOccurrences(text) = FirstOccurrences(other)
  /\ Cardinality(DOMAIN codes) >= 2
  /\ codes = first_codes

(* C6: when the bits handed to decode_huffman run out while the walk is    *)
(* inside a code (not on a Leaf boundary), or the walk has to descend      *)
(* below a Leaf, decoding ends in an error outcome instead of returning    *)
(* decoded output.                                                         *)
CorruptStreamDetected ==
  (pc = "done" /\ node # root) => outcome # "none"

(* C7 as stated: every extraction of build_tree's merge loop takes, among  *)
(* the candidates of lowest frequency, the one inserted earliest.          *)
Earlier(a, b) ==
  \/ Frequency(a) < Frequency(b)
  \/ (Frequency(a) = Frequency(b) /\ a < b)

StableExtraction ==
  /\ pc = "pop_right" => \A h \in HeapItems : Earlier(left, h)
  /\ pc = "push" => \A h \in HeapItems : Earlier(right, h)

(* C7 amended: every extraction of build_tree's merge loop takes a node of *)
(* lowest frequency among the candidates; among candidates of equal        *)
(* frequency the node taken is not always the one inserted earliest.       *)
MinFrequencyExtraction ==
  /\ pc = "pop_right" => \A h \in HeapItems : Frequency(left) <= Frequency(h)
  /\ pc = "push" =>
       /\ Frequency(left) <= Frequency(right)
       /\ \A h \in HeapItems : Frequency(right) <= Frequency(h)

TieNotEarliest ==
  /\ pc = "push"
  /\ \E h \in HeapItems : Frequency(h) = Frequency(right) /\ h < right

(* C8: to_binary_string returns padding p = 8 - (len(s) mod 8), 1 <= p <= 8;*)
(* the padded stream is s followed by p zero bits, a multiple of 8 long;   *)
(* unpacking the packed bytes and dropping the last p bits gives back s.   *)
PaddingRule ==
  /\ pc \in {"write", "decompress_file", "unpack", "strip"} =>
       /\ padding = ByteBits - (Len(encoded_text) % ByteBits)
       /\ padding \in 1 .. ByteBits
  /\ pc = "strip" =>
       /\ binary_string = encoded_text \o Zeros(padding)
       /\ Len(binary_string) % ByteBits = 0
  /\ pc = "decode_huffman" => binary_string = encoded_text

AlignedStreamUnpacked ==
  /\ pc = "decode_huffman"
  /\ IsFile
  /\ Len(encoded_text) = ByteBits
  /\ padding = ByteBits
  /\ Len(binary_data) = 2
  /\ \E i \in 1 .. ByteBits : encoded_text[i] = 1

(* C9: the code table has one entry for each distinct byte value of the    *)
(* buffer and no others, encode never meets a byte without a code, and the *)
(* bitstream is the concatenation of the codes in buffer order.            *)
CodeTableCoverage ==
  /\ TreeBuilt => DOMAIN codes = Range(text)
  /\ outcome # "KeyError"
  /\ pc = "to_binary_string" =>
       /\ Len(encoded_text) = Offset(codes, text, Len(text))
       /\ \A i \in 1 .. Len(text) :
            SubSeq(encoded_text, Offset(codes, text, i - 1) + 1,
                   Offset(codes, text, i)) = codes[text[i]]

EncodedWithByteZero ==
  /\ pc = "to_binary_string"
  /\ 0 \in Range(text)
  /\ Cardinality(Range(text)) >= 3
  /\ Len(encoded_text) > Len(text)

(* C10: in a buffer with at least two distinct byte values, a byte value   *)
(* that occurs strictly more often than another never has a longer code.   *)
FrequencyOrderedLengths ==
  (pc = "constructed" /\ Cardinality(Range(text)) >= 2) =>
    \A x \in Range(text) : \A y \in Range(text) :
      Count(text, x) > Count(text, y) => Len(codes[x]) <= Len(codes[y])

ShorterCodeForFrequentByte ==
  /\ pc = "constructed"
  /\ \E x \in Range(text) : \E y \in Range(text) :
       /\ Count(text, x) > Count(text, y)
       /\ Len(codes[x]) < Len(codes[y])

====
